---- MODULE Spec2Model ----
(***************************************************************************)
(* Model of apps/web/server.js: the prefix-routing HTTP gateway.           *)
(*                                                                         *)
(* Strings the code inspects character by character (URLs, error messages, *)
(* text bodies) are sequences of one-character strings, so that            *)
(* startsWith, slice, includes and toLowerCase are computed, not assumed.  *)
(* One request is followed from its arrival to its completion; the events  *)
(* of the outbound request (response, data, end, timeout, error) and the   *)
(* disconnect of the client are separate actions.                          *)
(***************************************************************************)
EXTENDS Integers, Sequences, FiniteSets, TLC

VARIABLES
    phase,          \* "idle", "local" (answered by the handler), "proxy", "path"
    req,            \* the inbound request: url, method, headers
    stripArg,       \* the stripPrefix argument proxy() was called with
    contacted,      \* the upstreams http.request was called for, in order
    pReq,           \* options of the outbound request
    pReqDestroyed,  \* pReq.destroy(err) was called / its socket failed
    errState,       \* 'error' event of pReq: "none", "pending", "handled"
    errMsg,         \* message of the error pReq failed with
    pRes,           \* the upstream's response: statusCode, headers, body
    pResState,      \* "none", "head" (response callback ran), "end"
    delivered,      \* chunks of pRes.body piped to res so far
    resStatus,      \* status written to the caller by res.writeHead, 0 = none
    resHeaders,     \* headers written to the caller
    resBody,        \* body written to the caller
    resEnded,       \* res.end() was called
    crashed,        \* an exception escaped a callback: the process is gone
    clientGone,     \* the public-facing client disconnected
    goneEarly,      \* ... and did so before the upstream had responded
    slots,          \* two requests in progress at once: slot -> request state
    dead,           \* ... and whether an uncaught exception ended their process
    deploy          \* one run of scripts/deploy.sh

vars == <<phase, req, stripArg, contacted, pReq, pReqDestroyed, errState, errMsg,
          pRes, pResState, delivered, resStatus, resHeaders, resBody, resEnded,
          crashed, clientGone, goneEarly, slots, dead, deploy>>

\* the state of the two-request and of the deploy specifications
others == <<slots, dead, deploy>>

(***************************************************************************)
(* Bounds                                                                  *)
(***************************************************************************)
MaxPieces == 3      \* pieces of a URL after its first segment
MaxChunks == 2      \* chunks of an upstream response body

(***************************************************************************)
(* String primitives of JavaScript, on sequences of characters             *)
(***************************************************************************)
StartsWith(s, p) == Len(p) <= Len(s) /\ SubSeq(s, 1, Len(p)) = p

Slice(s, n) == SubSeq(s, n + 1, Len(s))

Includes(s, t) == \E i \in 0..(Len(s) - Len(t)) : SubSeq(s, i + 1, i + Len(t)) = t

UpperChars == <<"A", "B", "C", "D", "E", "F", "G", "H", "I", "J", "K", "L", "M",
                "N", "O", "P", "Q", "R", "S", "T", "U", "V", "W", "X", "Y", "Z">>

LowerChars == <<"a", "b", "c", "d", "e", "f", "g", "h", "i", "j", "k", "l", "m",
                "n", "o", "p", "q", "r", "s", "t", "u", "v", "w", "x", "y", "z">>

ToLowerCase(s) ==
    [i \in 1..Len(s) |->
        IF \E k \in 1..26 : UpperChars[k] = s[i]
        THEN LowerChars[CHOOSE k \in 1..26 : UpperChars[k] = s[i]]
        ELSE s[i]]

\* a || b on strings: the empty string is falsy
OrStr(a, b) == IF a = <<>> THEN b ELSE a

(***************************************************************************)
(* Header objects: functions from header names to values                   *)
(***************************************************************************)
NoHeaders == [k \in {} |-> ""]

\* obj[k] = v
SetHeader(h, k, v) == [x \in (DOMAIN h) \cup {k} |-> IF x = k THEN v ELSE h[x]]

\* obj[k] || d : an absent or empty value is falsy
GetOr(h, k, d) == IF k \in DOMAIN h /\ h[k] # "" THEN h[k] ELSE d

(***************************************************************************)
(* Literals of server.js                                                   *)
(***************************************************************************)
Root == <<"/">>
HealthUrl == <<"/", "h", "e", "a", "l", "t", "h">>
ShopUrl == <<"/", "s", "h", "o", "p">>
ShopSlash == <<"/", "s", "h", "o", "p", "/">>
ApiSlash == <<"/", "a", "p", "i", "/">>
AiSlash == <<"/", "a", "i", "/">>
MediaSlash == <<"/", "m", "e", "d", "i", "a", "/">>
ApiStrip == <<"/", "a", "p", "i">>
AiStrip == <<"/", "a", "i">>
MediaStrip == <<"/", "m", "e", "d", "i", "a">>

INDEX_HTML == <<"<!doctype html>", "<html lang=ru>", "skeleton", "</html>">>

JsonType == [k \in {"content-type"} |-> "application/json; charset=utf-8"]
HtmlType == [k \in {"content-type"} |-> "text/html; charset=utf-8"]
TextType == [k \in {"content-type"} |-> "text/plain; charset=utf-8"]

\* JSON.stringify of an object with one string field
JsonStringify(key, value) ==
    <<"{", "\"">> \o key \o <<"\"", ":", "\"">> \o value \o <<"\"", "}">>

StatusKey == <<"s", "t", "a", "t", "u", "s">>
OkValue == <<"o", "k">>
DetailKey == <<"d", "e", "t", "a", "i", "l">>
NotFoundValue == <<"N", "o", "t", " ", "F", "o", "u", "n", "d">>

(***************************************************************************)
(* Inputs: requests, upstream responses, transport errors                  *)
(***************************************************************************)
\* first path segments: the words of the routing table, one other word, and
\* a word that holds a configured prefix in its middle
Heads == { <<>>, <<"a", "p", "i">>, <<"a", "i">>, <<"m", "e", "d", "i", "a">>,
           <<"h", "e", "a", "l", "t", "h">>, <<"s", "h", "o", "p">>, <<"x">>,
           <<"x", "/", "a", "p", "i">> }

Pieces == { <<"/">>, <<"x">> }

RECURSIVE Concat(_)
Concat(ss) == IF ss = <<>> THEN <<>> ELSE Head(ss) \o Concat(Tail(ss))

Tails == { Concat(ss) : ss \in UNION { [1..n -> Pieces] : n \in 0..MaxPieces } }

\* origin-form request targets: "/", a first segment, up to MaxPieces pieces
Urls == { Root \o h \o t : h \in Heads, t \in Tails }

Methods == {"GET", "POST"}

HeaderValues ==
    [k \in {"host", "x-forwarded-host", "x-forwarded-proto", "accept"} |->
        CASE k = "host" -> {"shop.example"}
          [] k = "x-forwarded-host" -> {"edge.example"}
          [] k = "x-forwarded-proto" -> {"", "https"}
          [] k = "accept" -> {"*/*"}]

HeaderMaps ==
    UNION { { h \in [D -> UNION { HeaderValues[k] : k \in D }] :
                \A k \in D : h[k] \in HeaderValues[k] } :
            D \in SUBSET (DOMAIN HeaderValues) }

BaseHeaders == [k \in {"host"} |-> "shop.example"]

SampleUrl == ApiSlash \o <<"x">>

\* every URL with plain headers, and every header object on a forwarded URL
Requests ==
    { [url |-> u, method |-> "GET", headers |-> BaseHeaders] : u \in Urls }
    \cup { [url |-> SampleUrl, method |-> "GET", headers |-> h] : h \in HeaderMaps }
    \cup { [url |-> SampleUrl, method |-> m, headers |-> BaseHeaders] : m \in Methods }

Chunks == {"a", "b"}

Bodies == UNION { [1..n -> Chunks] : n \in 0..MaxChunks }

JsonHeaders == [k \in {"content-type"} |-> "application/json"]
HtmlCookieHeaders ==
    [k \in {"content-type", "set-cookie"} |->
        IF k = "set-cookie" THEN "sid=1" ELSE "text/html"]

UpstreamHeads ==
    { [statusCode |-> 200, headers |-> JsonHeaders],
      [statusCode |-> 404, headers |-> HtmlCookieHeaders] }

UpstreamResponses ==
    { [statusCode |-> h.statusCode, headers |-> h.headers, body |-> b] :
        h \in UpstreamHeads, b \in Bodies }

\* new Error("Upstream timeout"), line 57
TimeoutError ==
    <<"U", "p", "s", "t", "r", "e", "a", "m", " ", "t", "i", "m", "e", "o", "u", "t">>

\* messages of socket errors of the outbound request
TransportErrors ==
    { <<"c", "o", "n", "n", "e", "c", "t", " ", "E", "C", "O", "N", "N",
        "R", "E", "F", "U", "S", "E", "D">>,
      <<"c", "o", "n", "n", "e", "c", "t", " ", "E", "T", "I", "M", "E", "D", "O", "U", "T">>,
      <<"s", "o", "c", "k", "e", "t", " ", "h", "a", "n", "g", " ", "u", "p">> }

NoRequest == [url |-> <<>>, method |-> "", headers |-> NoHeaders]
NoOptions == [hostname |-> "", port |-> 0, path |-> <<>>, method |-> "",
              headers |-> NoHeaders]
NoResponse == [statusCode |-> 0, headers |-> NoHeaders, body |-> <<>>]

(***************************************************************************)
(* proxy(): the outbound request, lines 30-48                              *)
(***************************************************************************)
\* const origUrl = req.url || "/"
OrigUrl(r) == OrStr(r.url, Root)

\* variant: the inbound prefix with its slash is cut off instead of stripPrefix
ProxyPathCutsSlash(origUrl, stripPrefix) ==
    IF StartsWith(origUrl, stripPrefix)
    THEN OrStr(Slice(origUrl, Len(stripPrefix) + 1), Root)
    ELSE origUrl

ProxyPath(origUrl, stripPrefix) ==
    IF StartsWith(origUrl, stripPrefix)
    THEN OrStr(Slice(origUrl, Len(stripPrefix)), Root)
    ELSE origUrl

\* variant: Host is replaced by the internal upstream name (an earlier draft)
ProxyHeadersInternalHost(h) ==
    LET h1 == SetHeader(h, "x-forwarded-host", GetOr(h, "host", ""))
        h2 == SetHeader(h1, "x-forwarded-proto", GetOr(h1, "x-forwarded-proto", "http"))
    IN  SetHeader(h2, "host", "api:8001")

ProxyHeaders(h) ==
    LET h1 == SetHeader(h, "x-forwarded-host", GetOr(h, "host", ""))
    IN  SetHeader(h1, "x-forwarded-proto", GetOr(h1, "x-forwarded-proto", "http"))

ProxyOptions(r, targetHost, targetPort, stripPrefix) ==
    [hostname |-> targetHost,
     port |-> targetPort,
     path |-> ProxyPath(OrigUrl(r), stripPrefix),
     method |-> r.method,
     headers |-> ProxyHeaders(r.headers)]

(***************************************************************************)
(* The request handler's dispatch, lines 72-104                            *)
(***************************************************************************)
Local(status, headers, body) ==
    [kind |-> "local", status |-> status, headers |-> headers, body |-> body]

Forward(targetHost, targetPort, stripPrefix) ==
    [kind |-> "proxy", host |-> targetHost, port |-> targetPort,
     strip |-> stripPrefix]

\* variant: the rules match the strip prefix, without its trailing slash
DispatchLoosePrefix(url) ==
    IF url = HealthUrl
        THEN Local(200, JsonType, JsonStringify(StatusKey, OkValue))
    ELSE IF StartsWith(url, ApiStrip) THEN Forward("api", 8001, ApiStrip)
    ELSE IF StartsWith(url, AiStrip) THEN Forward("ai", 8002, AiStrip)
    ELSE IF StartsWith(url, MediaStrip) THEN Forward("minio", 9000, MediaStrip)
    ELSE IF url = ShopUrl
        THEN Local(301, [k \in {"Location"} |-> "/shop/"], <<>>)
    ELSE IF url = Root \/ StartsWith(url, ShopSlash)
        THEN Local(200, HtmlType, INDEX_HTML)
    ELSE Local(404, JsonType, JsonStringify(DetailKey, NotFoundValue))

\* variant: the static page is served for every URL that starts with /shop
DispatchShopPrefix(url) ==
    IF url = HealthUrl
        THEN Local(200, JsonType, JsonStringify(StatusKey, OkValue))
    ELSE IF StartsWith(url, ApiSlash) THEN Forward("api", 8001, ApiStrip)
    ELSE IF StartsWith(url, AiSlash) THEN Forward("ai", 8002, AiStrip)
    ELSE IF StartsWith(url, MediaSlash) THEN Forward("minio", 9000, MediaStrip)
    ELSE IF url = ShopUrl
        THEN Local(301, [k \in {"Location"} |-> "/shop/"], <<>>)
    ELSE IF url = Root \/ StartsWith(url, ShopUrl)
        THEN Local(200, HtmlType, INDEX_HTML)
    ELSE Local(404, JsonType, JsonStringify(DetailKey, NotFoundValue))

\* variant: the root redirects to /shop/ (an earlier draft)
DispatchRootRedirect(url) ==
    IF url = HealthUrl
        THEN Local(200, JsonType, JsonStringify(StatusKey, OkValue))
    ELSE IF StartsWith(url, ApiSlash) THEN Forward("api", 8001, ApiStrip)
    ELSE IF StartsWith(url, AiSlash) THEN Forward("ai", 8002, AiStrip)
    ELSE IF StartsWith(url, MediaSlash) THEN Forward("minio", 9000, MediaStrip)
    ELSE IF url = Root \/ url = ShopUrl
        THEN Local(301, [k \in {"Location"} |-> "/shop/"], <<>>)
    ELSE IF StartsWith(url, ShopSlash)
        THEN Local(200, HtmlType, INDEX_HTML)
    ELSE Local(404, JsonType, JsonStringify(DetailKey, NotFoundValue))

Dispatch(url) ==
    IF url = HealthUrl
        THEN Local(200, JsonType, JsonStringify(StatusKey, OkValue))
    ELSE IF StartsWith(url, ApiSlash) THEN Forward("api", 8001, ApiStrip)
    ELSE IF StartsWith(url, AiSlash) THEN Forward("ai", 8002, AiStrip)
    ELSE IF StartsWith(url, MediaSlash) THEN Forward("minio", 9000, MediaStrip)
    ELSE IF url = ShopUrl
        THEN Local(301, [k \in {"Location"} |-> "/shop/"], <<>>)
    ELSE IF url = Root \/ StartsWith(url, ShopSlash)
        THEN Local(200, HtmlType, INDEX_HTML)
    ELSE Local(404, JsonType, JsonStringify(DetailKey, NotFoundValue))

(***************************************************************************)
(* proxy(): the 'error' handler of the outbound request, lines 60-67       *)
(***************************************************************************)
ProxyErrorText == <<"p", "r", "o", "x", "y", " ", "e", "r", "r", "o", "r">>
TimeoutWord == <<"t", "i", "m", "e", "o", "u", "t">>
GatewayTimeoutText ==
    <<"G", "a", "t", "e", "w", "a", "y", " ", "t", "i", "m", "e", "o", "u", "t">>
BadGatewayText == <<"B", "a", "d", " ", "g", "a", "t", "e", "w", "a", "y">>

\* err && err.message ? err.message : "proxy error"
ErrorText(message) == OrStr(message, ProxyErrorText)

\* variant: the test looks for "time" instead of "timeout"
IsTimeoutLoose(msg) == Includes(ToLowerCase(msg), <<"t", "i", "m", "e">>)

IsTimeout(msg) == Includes(ToLowerCase(msg), TimeoutWord)

\* variant: every failure is a 502 (an earlier draft)
ErrorStatusAlways502(msg) == 502

ErrorStatus(msg) == IF IsTimeout(msg) THEN 504 ELSE 502

ErrorBody(msg) ==
    (IF IsTimeout(msg) THEN GatewayTimeoutText ELSE BadGatewayText)
        \o <<":", " ">> \o msg

\* variant: the upstream's status is not copied
StatusAlways200(statusCode) == 200

\* pRes.statusCode || 502
StatusOr502(statusCode) == IF statusCode = 0 THEN 502 ELSE statusCode

(***************************************************************************)
(* State after construction: the server listens, no request in progress    *)
(***************************************************************************)
\* a request slot of the two-request specification before its request arrives
IdleSlot ==
    [phase |-> "idle", req |-> NoRequest, pReq |-> NoOptions, pReqDestroyed |-> FALSE,
     errState |-> "none", errMsg |-> <<>>, pRes |-> NoResponse, pResState |-> "none",
     delivered |-> 0, resStatus |-> 0, resHeaders |-> NoHeaders, resBody |-> <<>>,
     resEnded |-> FALSE]

Slots == {1, 2}

BothIdle == [i \in Slots |-> IdleSlot]

\* deploy.sh before its first command
NotStarted ==
    [pc |-> "need", noCache |-> FALSE, attempt |-> 1, ran |-> <<>>,
     dbReady |-> FALSE, apiReady |-> FALSE, failedAt |-> "", exitCode |-> -1,
     printedOk |-> FALSE]

\* the specifications of one request leave the other state alone
Elsewhere ==
    /\ slots = BothIdle
    /\ dead = FALSE
    /\ deploy = NotStarted

Idle ==
    /\ phase = "idle"
    /\ req = NoRequest
    /\ stripArg = <<>>
    /\ contacted = <<>>
    /\ pReq = NoOptions
    /\ pReqDestroyed = FALSE
    /\ errState = "none"
    /\ errMsg = <<>>
    /\ pRes = NoResponse
    /\ pResState = "none"
    /\ delivered = 0
    /\ resStatus = 0
    /\ resHeaders = NoHeaders
    /\ resBody = <<>>
    /\ resEnded = FALSE
    /\ crashed = FALSE
    /\ clientGone = FALSE
    /\ goneEarly = FALSE

Init == Idle /\ Elsewhere

(***************************************************************************)
(* The request handler: answers locally or calls proxy()                   *)
(***************************************************************************)
Request ==
    \E r \in Requests :
        LET d == Dispatch(OrigUrl(r)) IN
        /\ UNCHANGED others
        /\ phase = "idle"
        /\ ~crashed
        /\ req' = r
        /\ IF d.kind = "local"
           THEN /\ phase' = "local"
                /\ resStatus' = d.status
                /\ resHeaders' = d.headers
                /\ resBody' = d.body
                /\ resEnded' = TRUE
                /\ UNCHANGED <<stripArg, contacted, pReq>>
           ELSE /\ phase' = "proxy"
                /\ stripArg' = d.strip
                /\ pReq' = ProxyOptions(r, d.host, d.port, d.strip)
                /\ contacted' = Append(contacted, [hostname |-> d.host, port |-> d.port])
                /\ UNCHANGED <<resStatus, resHeaders, resBody, resEnded>>
        /\ UNCHANGED <<pReqDestroyed, errState, errMsg, pRes, pResState, delivered,
                       crashed, clientGone, goneEarly>>

\* the outbound request is still alive: not destroyed, response not complete
Alive == phase = "proxy" /\ ~crashed /\ ~pReqDestroyed /\ pResState # "end"

\* response callback of http.request, lines 50-53: res.writeHead(...)
UpstreamResponse ==
    \E up \in UpstreamResponses :
        /\ UNCHANGED others
        /\ Alive
        /\ pResState = "none"
        /\ pRes' = up
        /\ pResState' = "head"
        /\ resStatus' = StatusOr502(up.statusCode)
        /\ resHeaders' = up.headers
        /\ UNCHANGED <<phase, req, stripArg, contacted, pReq, pReqDestroyed, errState,
                       errMsg, delivered, resBody, resEnded, crashed, clientGone,
                       goneEarly>>

\* pRes.pipe(res): one chunk of the upstream body is written to the caller
PipeChunk ==
    /\ UNCHANGED others
    /\ Alive
    /\ pResState = "head"
    /\ delivered < Len(pRes.body)
    /\ delivered' = delivered + 1
    /\ resBody' = Append(resBody, pRes.body[delivered + 1])
    /\ UNCHANGED <<phase, req, stripArg, contacted, pReq, pReqDestroyed, errState,
                   errMsg, pRes, pResState, resStatus, resHeaders, resEnded, crashed,
                   clientGone, goneEarly>>

\* pRes.pipe(res, { end: true }): the upstream body ended, res.end()
PipeEnd ==
    /\ UNCHANGED others
    /\ Alive
    /\ pResState = "head"
    /\ delivered = Len(pRes.body)
    /\ pResState' = "end"
    /\ resEnded' = TRUE
    /\ UNCHANGED <<phase, req, stripArg, contacted, pReq, pReqDestroyed, errState,
                   errMsg, pRes, delivered, resStatus, resHeaders, resBody, crashed,
                   clientGone, goneEarly>>

\* pReq.destroy(err): the socket is destroyed and 'error' is emitted on pReq
Destroy(message) ==
    /\ UNCHANGED others
    /\ pReqDestroyed' = TRUE
    /\ errState' = "pending"
    /\ errMsg' = message
    /\ UNCHANGED <<phase, req, stripArg, contacted, pReq, pRes, pResState, delivered,
                   resStatus, resHeaders, resBody, resEnded, crashed, clientGone,
                   goneEarly>>

\* the callback of pReq.setTimeout(30000, ...), lines 56-58
Timeout ==
    /\ Alive
    /\ Destroy(TimeoutError)

\* the socket of pReq fails: refused, reset, DNS failure, hang up
TransportFailure ==
    \E m \in TransportErrors :
        /\ Alive
        /\ Destroy(m)

\* pReq.on("error", ...), lines 60-67; res.writeHead throws
\* ERR_HTTP_HEADERS_SENT when the head was already written
PReqError ==
    LET msg == ErrorText(errMsg) IN
    /\ UNCHANGED others
    /\ phase = "proxy"
    /\ ~crashed
    /\ errState = "pending"
    /\ errState' = "handled"
    /\ IF resStatus # 0
       THEN /\ crashed' = TRUE
            /\ UNCHANGED <<resStatus, resHeaders, resBody, resEnded>>
       ELSE /\ resStatus' = ErrorStatus(msg)
            /\ resHeaders' = TextType
            /\ resBody' = ErrorBody(msg)
            /\ resEnded' = TRUE
            /\ UNCHANGED crashed
    /\ UNCHANGED <<phase, req, stripArg, contacted, pReq, pReqDestroyed, errMsg, pRes,
                   pResState, delivered, clientGone, goneEarly>>

\* the client closes its connection; proxy() registers no listener for it
ClientDisconnect ==
    /\ UNCHANGED others
    /\ phase = "proxy"
    /\ ~crashed
    /\ ~clientGone
    /\ ~resEnded
    /\ clientGone' = TRUE
    /\ goneEarly' = (pResState = "none" /\ ~pReqDestroyed)
    /\ UNCHANGED <<phase, req, stripArg, contacted, pReq, pReqDestroyed, errState,
                   errMsg, pRes, pResState, delivered, resStatus, resHeaders, resBody,
                   resEnded, crashed>>

\* the exchange is over; the server goes on listening for the next request
Finish ==
    /\ UNCHANGED others
    /\ phase \in {"local", "proxy"}
    /\ ~crashed
    /\ resEnded
    /\ errState # "pending"
    /\ phase' = "idle"
    /\ req' = NoRequest
    /\ stripArg' = <<>>
    /\ contacted' = <<>>
    /\ pReq' = NoOptions
    /\ pReqDestroyed' = FALSE
    /\ errState' = "none"
    /\ errMsg' = <<>>
    /\ pRes' = NoResponse
    /\ pResState' = "none"
    /\ delivered' = 0
    /\ resStatus' = 0
    /\ resHeaders' = NoHeaders
    /\ resBody' = <<>>
    /\ resEnded' = FALSE
    /\ clientGone' = FALSE
    /\ goneEarly' = FALSE
    /\ UNCHANGED crashed

Next ==
    \/ Request
    \/ UpstreamResponse
    \/ PipeChunk
    \/ PipeEnd
    \/ Timeout
    \/ TransportFailure
    \/ PReqError
    \/ ClientDisconnect
    \/ Finish

Spec == Init /\ [][Next]_vars

\* the event loop runs every pending callback and every armed timer fires
FairSpec ==
    Spec /\ WF_vars(PReqError) /\ WF_vars(Timeout)

(***************************************************************************)
(* proxy()'s outbound request as a function of its arguments               *)
(***************************************************************************)
Rules ==
    { Forward("api", 8001, ApiStrip), Forward("ai", 8002, AiStrip),
      Forward("minio", 9000, MediaStrip) }

InitPath ==
    /\ Elsewhere
    /\ phase = "path"
    /\ req = NoRequest
    /\ stripArg = <<>>
    /\ contacted = <<>>
    /\ pReq = NoOptions
    /\ pReqDestroyed = FALSE
    /\ errState = "none"
    /\ errMsg = <<>>
    /\ pRes = NoResponse
    /\ pResState = "none"
    /\ delivered = 0
    /\ resStatus = 0
    /\ resHeaders = NoHeaders
    /\ resBody = <<>>
    /\ resEnded = FALSE
    /\ crashed = FALSE
    /\ clientGone = FALSE
    /\ goneEarly = FALSE

CallProxy ==
    \E u \in Urls, rule \in Rules :
        LET r == [url |-> u, method |-> "GET", headers |-> BaseHeaders] IN
        /\ UNCHANGED others
        /\ phase = "path"
        /\ phase' = "called"
        /\ req' = r
        /\ stripArg' = rule.strip
        /\ pReq' = ProxyOptions(r, rule.host, rule.port, rule.strip)
        /\ contacted' = Append(contacted, [hostname |-> rule.host, port |-> rule.port])
        /\ UNCHANGED <<pReqDestroyed, errState, errMsg, pRes, pResState, delivered,
                       resStatus, resHeaders, resBody, resEnded, crashed, clientGone,
                       goneEarly>>

NextPath == CallProxy

SpecPath == InitPath /\ [][NextPath]_vars

(***************************************************************************)
(* Two requests in progress at once: each handler invocation has its own   *)
(* req, res, pReq and pRes; the only thing they share is the process       *)
(***************************************************************************)
\* slot 1 asks the api upstream, slot 2 the media upstream
TwoRequests ==
    [i \in Slots |->
        [url |-> (IF i = 1 THEN ApiSlash ELSE MediaSlash) \o <<"x">>,
         method |-> "GET", headers |-> BaseHeaders]]

\* upstream responses with a body of at most one chunk
TwoResponses == { up \in UpstreamResponses : Len(up.body) <= 1 }

\* the handler, lines 72-104, on the slot of its request
Handle(r) ==
    LET d == Dispatch(OrigUrl(r)) IN
    IF d.kind = "local"
    THEN [IdleSlot EXCEPT !.phase = "local", !.req = r, !.resStatus = d.status,
                          !.resHeaders = d.headers, !.resBody = d.body,
                          !.resEnded = TRUE]
    ELSE [IdleSlot EXCEPT !.phase = "proxy", !.req = r,
                          !.pReq = ProxyOptions(r, d.host, d.port, d.strip)]

SlotAlive(i) ==
    /\ ~dead
    /\ slots[i].phase = "proxy"
    /\ ~slots[i].pReqDestroyed
    /\ slots[i].pResState # "end"

TwoRequest ==
    \E i \in Slots :
        /\ ~dead
        /\ slots[i].phase = "idle"
        /\ slots' = [slots EXCEPT ![i] = Handle(TwoRequests[i])]
        /\ UNCHANGED <<dead, deploy>>
        /\ UNCHANGED <<phase, req, stripArg, contacted, pReq, pReqDestroyed, errState,
                       errMsg, pRes, pResState, delivered, resStatus, resHeaders,
                       resBody, resEnded, crashed, clientGone, goneEarly>>

\* response callback, lines 50-53
TwoResponse ==
    \E i \in Slots, up \in TwoResponses :
        /\ SlotAlive(i)
        /\ slots[i].pResState = "none"
        /\ slots' = [slots EXCEPT ![i] =
                        [@ EXCEPT !.pRes = up, !.pResState = "head",
                                  !.resStatus = StatusOr502(up.statusCode),
                                  !.resHeaders = up.headers]]
        /\ UNCHANGED <<dead, deploy>>
        /\ UNCHANGED <<phase, req, stripArg, contacted, pReq, pReqDestroyed, errState,
                       errMsg, pRes, pResState, delivered, resStatus, resHeaders,
                       resBody, resEnded, crashed, clientGone, goneEarly>>

\* pRes.pipe(res): a chunk
TwoPipeChunk ==
    \E i \in Slots :
        /\ SlotAlive(i)
        /\ slots[i].pResState = "head"
        /\ slots[i].delivered < Len(slots[i].pRes.body)
        /\ slots' = [slots EXCEPT ![i] =
                        [@ EXCEPT !.delivered = @ + 1,
                                  !.resBody = Append(@, slots[i].pRes.body[
                                                  slots[i].delivered + 1])]]
        /\ UNCHANGED <<dead, deploy>>
        /\ UNCHANGED <<phase, req, stripArg, contacted, pReq, pReqDestroyed, errState,
                       errMsg, pRes, pResState, delivered, resStatus, resHeaders,
                       resBody, resEnded, crashed, clientGone, goneEarly>>

\* pRes.pipe(res, { end: true }): the end
TwoPipeEnd ==
    \E i \in Slots :
        /\ SlotAlive(i)
        /\ slots[i].pResState = "head"
        /\ slots[i].delivered = Len(slots[i].pRes.body)
        /\ slots' = [slots EXCEPT ![i] =
                        [@ EXCEPT !.pResState = "end", !.resEnded = TRUE]]
        /\ UNCHANGED <<dead, deploy>>
        /\ UNCHANGED <<phase, req, stripArg, contacted, pReq, pReqDestroyed, errState,
                       errMsg, pRes, pResState, delivered, resStatus, resHeaders,
                       resBody, resEnded, crashed, clientGone, goneEarly>>

\* pReq.destroy(err) on the slot's outbound request
SlotDestroy(i, message) ==
    /\ slots' = [slots EXCEPT ![i] =
                    [@ EXCEPT !.pReqDestroyed = TRUE, !.errState = "pending",
                              !.errMsg = message]]
    /\ UNCHANGED <<dead, deploy>>
    /\ UNCHANGED <<phase, req, stripArg, contacted, pReq, pReqDestroyed, errState,
                   errMsg, pRes, pResState, delivered, resStatus, resHeaders,
                   resBody, resEnded, crashed, clientGone, goneEarly>>

\* the timeout callback, lines 56-58
TwoTimeout ==
    \E i \in Slots :
        /\ SlotAlive(i)
        /\ SlotDestroy(i, TimeoutError)

TwoTransportFailure ==
    \E i \in Slots, m \in TransportErrors :
        /\ SlotAlive(i)
        /\ SlotDestroy(i, m)

\* the 'error' handler, lines 60-67: the exception of its res.writeHead is
\* uncaught and ends the process both requests run in
TwoError ==
    \E i \in Slots :
        LET msg == ErrorText(slots[i].errMsg) IN
        /\ ~dead
        /\ slots[i].phase = "proxy"
        /\ slots[i].errState = "pending"
        /\ IF slots[i].resStatus # 0
           THEN /\ dead' = TRUE
                /\ slots' = [slots EXCEPT ![i] = [@ EXCEPT !.errState = "handled"]]
           ELSE /\ dead' = dead
                /\ slots' = [slots EXCEPT ![i] =
                                [@ EXCEPT !.errState = "handled",
                                          !.resStatus = ErrorStatus(msg),
                                          !.resHeaders = TextType,
                                          !.resBody = ErrorBody(msg),
                                          !.resEnded = TRUE]]
        /\ UNCHANGED deploy
        /\ UNCHANGED <<phase, req, stripArg, contacted, pReq, pReqDestroyed, errState,
                       errMsg, pRes, pResState, delivered, resStatus, resHeaders,
                       resBody, resEnded, crashed, clientGone, goneEarly>>

NextTwo ==
    \/ TwoRequest
    \/ TwoResponse
    \/ TwoPipeChunk
    \/ TwoPipeEnd
    \/ TwoTimeout
    \/ TwoTransportFailure
    \/ TwoError

SpecTwo == Init /\ [][NextTwo]_vars

(***************************************************************************)
(* scripts/deploy.sh, run under set -euo pipefail                          *)
(*                                                                         *)
(* deploy.pc is the command the script is at, deploy.ran the commands it   *)
(* has started, deploy.attempt the loop variable i of the wait loops.      *)
(***************************************************************************)
\* for i in {1..60}, lines 45 and 67
WaitAttempts == 60

\* [[ "$i" == "60" ]], lines 51 and 73
LastAttempt == 60

\* exit statuses of a command: success, or a failure
Statuses == {0, 1, 2}

\* the state of the gateway specifications
gateway == <<phase, req, stripArg, contacted, pReq, pReqDestroyed, errState,
             errMsg, pRes, pResState, delivered, resStatus, resHeaders, resBody,
             resEnded, crashed, clientGone, goneEarly, slots, dead>>

InitDeploy ==
    /\ Idle
    /\ slots = BothIdle
    /\ dead = FALSE
    /\ deploy \in { [NotStarted EXCEPT !.noCache = b] : b \in BOOLEAN }

\* a simple command under set -e: a non-zero status ends the script with
\* that status, after the ERR trap has printed its line
Command(step, nextPc) ==
    \E status \in Statuses :
        /\ deploy.pc = step
        /\ deploy' =
              IF status = 0
              THEN [deploy EXCEPT !.pc = nextPc, !.ran = Append(@, step)]
              ELSE [deploy EXCEPT !.pc = "exit", !.ran = Append(@, step),
                                  !.failedAt = step, !.exitCode = status]
        /\ UNCHANGED gateway

\* need_cmd docker; need_cmd git; need_cmd curl, lines 20-23
NeedCmds == Command("need", "pull")

\* git pull --ff-only, line 31
GitPull == Command("pull", "build")

\* docker compose build [--no-cache] api worker, lines 34-38
Build == Command("build", "infra")

\* docker compose up -d db redis minio meilisearch, line 41
InfraUp == Command("infra", "db")

\* variant: the last attempt is compared with the wrong number
LoopBodyOffByOne(ready, i) ==
    IF ready THEN "break"
    ELSE IF i = LastAttempt + 1 THEN "exit"
    ELSE "continue"

\* the body of a wait loop, lines 46-55 and 68-77: break when the probe
\* succeeds, exit 1 after the failed last attempt, else go round again
LoopBody(ready, i) ==
    IF ready THEN "break"
    ELSE IF i = LastAttempt THEN "exit"
    ELSE "continue"

\* one iteration of a wait loop; a loop that runs out of values of i goes on
\* with the command after done
WaitLoop(step, nextPc, flag) ==
    \E ready \in BOOLEAN :
        LET outcome == LoopBody(ready, deploy.attempt)
            started == IF deploy.attempt = 1 THEN Append(deploy.ran, step)
                       ELSE deploy.ran
        IN
        /\ deploy.pc = step
        /\ deploy' =
              CASE outcome = "break" ->
                     [deploy EXCEPT !.pc = nextPc, !.ran = started, !.attempt = 1,
                                    ![flag] = TRUE]
                [] outcome = "exit" ->
                     [deploy EXCEPT !.pc = "exit", !.ran = started,
                                    !.failedAt = step, !.exitCode = 1]
                [] outcome = "continue" /\ deploy.attempt < WaitAttempts ->
                     [deploy EXCEPT !.ran = started, !.attempt = @ + 1]
                [] OTHER ->
                     [deploy EXCEPT !.pc = nextPc, !.ran = started, !.attempt = 1]
        /\ UNCHANGED gateway

\* wait for db, lines 43-56
WaitDb == WaitLoop("db", "migrate", "dbReady")

\* docker compose run --rm api ... alembic upgrade head, line 60
Migrate == Command("migrate", "app")

\* docker compose up -d --force-recreate api worker, line 64
AppUp == Command("app", "api")

\* wait for api /health, lines 66-78
WaitApi == WaitLoop("api", "smoke", "apiReady")

\* ./scripts/smoke_api.sh, line 81
Smoke == Command("smoke", "ok")

\* echo "[deploy] OK", line 83, and the end of the script
PrintOk ==
    /\ deploy.pc = "ok"
    /\ deploy' = [deploy EXCEPT !.pc = "exit", !.printedOk = TRUE, !.exitCode = 0]
    /\ UNCHANGED gateway

NextDeploy ==
    \/ NeedCmds
    \/ GitPull
    \/ Build
    \/ InfraUp
    \/ WaitDb
    \/ Migrate
    \/ AppUp
    \/ WaitApi
    \/ Smoke
    \/ PrintOk

SpecDeploy == InitDeploy /\ [][NextDeploy]_vars

(***************************************************************************)
(* Properties                                                              *)
(***************************************************************************)
\* s begins with p, character by character
Begins(s, p) == Len(s) >= Len(p) /\ \A i \in 1..Len(p) : s[i] = p[i]

Handled == phase \in {"local", "proxy"}

Api8001 == [hostname |-> "api", port |-> 8001]
Ai8002 == [hostname |-> "ai", port |-> 8002]
Minio9000 == [hostname |-> "minio", port |-> 9000]

\* C1: an upstream is contacted if and only if the URL starts with /api/,
\* /ai/ or /media/, and then exactly one: api:8001, ai:8002 or minio:9000
\* respectively; a request for exactly /health contacts no upstream.
C1_UpstreamIffPrefix ==
    Handled =>
        /\ Begins(req.url, ApiSlash) => contacted = <<Api8001>>
        /\ Begins(req.url, AiSlash) => contacted = <<Ai8002>>
        /\ Begins(req.url, MediaSlash) => contacted = <<Minio9000>>
        /\ (~Begins(req.url, ApiSlash) /\ ~Begins(req.url, AiSlash)
               /\ ~Begins(req.url, MediaSlash)) => contacted = <<>>
        /\ req.url = HealthUrl => contacted = <<>>
        /\ contacted # <<>> =>
               /\ phase = "proxy"
               /\ pReq.hostname = contacted[1].hostname
               /\ pReq.port = contacted[1].port

C1_Witness ==
    /\ phase = "proxy"
    /\ req.url = MediaSlash \o <<"x">>
    /\ contacted = <<Minio9000>>
    /\ pResState = "end"

\* C2: the path proxy() sends upstream is the original path with the strip
\* prefix removed from its start, / when nothing remains, and the original
\* path unchanged when it does not start with the strip prefix.
C2_ForwardedPath ==
    phase = "called" =>
        IF Begins(req.url, stripArg)
        THEN IF Len(req.url) = Len(stripArg)
             THEN pReq.path = Root
             ELSE stripArg \o pReq.path = req.url
        ELSE pReq.path = req.url

C2_Witness ==
    /\ phase = "called"
    /\ stripArg = MediaStrip
    /\ req.url = MediaSlash \o <<"x">>
    /\ pReq.path = <<"/", "x">>

\* C3: once the upstream has responded, the status and the headers written to
\* the caller are the upstream's, the body written so far is the part of the
\* upstream's body received so far, and when the upstream's response has
\* ended the caller's body is the whole upstream body and is ended.
C3_ResponseVerbatim ==
    (phase = "proxy" /\ pResState # "none") =>
        /\ resStatus = pRes.statusCode
        /\ resHeaders = pRes.headers
        /\ resBody = SubSeq(pRes.body, 1, delivered)
        /\ pResState = "end" => (resBody = pRes.body /\ resEnded)

C3_Witness ==
    /\ phase = "proxy"
    /\ pResState = "end"
    /\ pRes.statusCode = 404
    /\ resStatus = 404
    /\ resHeaders = HtmlCookieHeaders
    /\ resBody = <<"a", "b">>
    /\ resEnded

BadGatewayColon ==
    <<"B", "a", "d", " ", "g", "a", "t", "e", "w", "a", "y", ":", " ">>

ConnectTimedOut ==
    <<"c", "o", "n", "n", "e", "c", "t", " ", "E", "T", "I", "M", "E", "D", "O", "U", "T">>

\* the 'error' handler of the outbound request has run
Failed == phase = "proxy" /\ errState = "handled"

FailureResponse ==
    /\ resStatus = (IF errMsg = TimeoutError THEN 504 ELSE 502)
    /\ errMsg # TimeoutError => resBody = BadGatewayColon \o errMsg

C5_NoCrash == ~crashed

\* C6: when the upstream has accepted the request and neither responds nor
\* fails otherwise, the outbound request is eventually destroyed and a 504
\* is eventually written to the caller and ended.
C6_TimeoutYields504 ==
    (phase = "proxy" /\ pResState = "none" /\ ~pReqDestroyed)
        ~> \/ pResState # "none"
           \/ pReqDestroyed /\ errMsg # TimeoutError
           \/ pReqDestroyed /\ resStatus = 504 /\ resEnded

C6_Witness ==
    /\ phase = "proxy"
    /\ pResState = "none"
    /\ pReqDestroyed
    /\ errMsg = TimeoutError
    /\ resStatus = 504
    /\ resHeaders = TextType
    /\ resEnded

MatchesRule(url) ==
    Begins(url, ApiSlash) \/ Begins(url, AiSlash) \/ Begins(url, MediaSlash)

DetailField == <<"\"", "d", "e", "t", "a", "i", "l", "\"", ":">>

NotFoundResponse ==
    /\ phase = "local"
    /\ resStatus = 404
    /\ resHeaders = JsonType
    /\ Includes(resBody, DetailField)
    /\ resEnded

\* C7 as stated: a request that matches no rule and is not /, /shop, /shop/
\* or /health receives 404 with a JSON body that has a detail field.
C7_Original ==
    (Handled /\ ~MatchesRule(req.url)
        /\ req.url \notin {Root, ShopUrl, ShopSlash, HealthUrl})
    => NotFoundResponse

\* C7 as amended: a request that matches no rule, is not /, /shop or /health
\* and does not start with /shop/ receives 404 with a JSON body that has a
\* detail field.
C7_NotFound ==
    (Handled /\ ~MatchesRule(req.url)
        /\ req.url \notin {Root, ShopUrl, HealthUrl}
        /\ ~Begins(req.url, ShopSlash))
    => NotFoundResponse

C7_Witness ==
    /\ req.url = <<"/", "a", "p", "i", "x">>
    /\ NotFoundResponse
    /\ contacted = <<>>

StatusOkJson ==
    <<"{", "\"", "s", "t", "a", "t", "u", "s", "\"", ":", "\"", "o", "k", "\"", "}">>

\* C8 as stated: /health, /, /shop and /shop/ are answered locally with 200,
\* /health with {"status":"ok"} and the others with the static document.
C8_Original ==
    (Handled /\ req.url \in {HealthUrl, Root, ShopUrl, ShopSlash}) =>
        /\ phase = "local"
        /\ resStatus = 200
        /\ resEnded
        /\ resBody = (IF req.url = HealthUrl THEN StatusOkJson ELSE INDEX_HTML)

\* C8 as amended: /health, / and /shop/ are answered locally with 200,
\* /health with {"status":"ok"} and / and /shop/ with the static document;
\* /shop is answered locally with a 301 redirect to /shop/ and no body.
C8_LocalAnswers ==
    (Handled /\ req.url \in {HealthUrl, Root, ShopUrl, ShopSlash}) =>
        /\ phase = "local"
        /\ contacted = <<>>
        /\ resEnded
        /\ req.url = HealthUrl =>
               resStatus = 200 /\ resHeaders = JsonType /\ resBody = StatusOkJson
        /\ req.url \in {Root, ShopSlash} =>
               resStatus = 200 /\ resHeaders = HtmlType /\ resBody = INDEX_HTML
        /\ req.url = ShopUrl =>
               /\ resStatus = 301
               /\ resHeaders = [k \in {"Location"} |-> "/shop/"]
               /\ resBody = <<>>

C8_Witness ==
    /\ phase = "local"
    /\ req.url = ShopUrl
    /\ resStatus = 301
    /\ resEnded

Forwarded == {"x-forwarded-host", "x-forwarded-proto"}

\* C9 as stated: the outbound request has the method of the original and
\* every header of the original with its original value, and also
\* x-forwarded-host and x-forwarded-proto.
C9_Original ==
    phase = "proxy" =>
        /\ pReq.method = req.method
        /\ \A k \in DOMAIN req.headers :
               k \in DOMAIN pReq.headers /\ pReq.headers[k] = req.headers[k]
        /\ Forwarded \subseteq DOMAIN pReq.headers

\* C9 as amended: the outbound request has the method of the original and
\* every header of the original with its original value (Host included),
\* except that x-forwarded-host is always set to the original Host value (the
\* empty string without one) and that an absent or empty x-forwarded-proto
\* is set to http; no other header is added.
C9_HeadersForwarded ==
    phase = "proxy" =>
        /\ pReq.method = req.method
        /\ DOMAIN pReq.headers = (DOMAIN req.headers) \cup Forwarded
        /\ \A k \in (DOMAIN req.headers) \ Forwarded :
               pReq.headers[k] = req.headers[k]
        /\ pReq.headers["x-forwarded-host"] =
               (IF "host" \in DOMAIN req.headers THEN req.headers["host"] ELSE "")
        /\ pReq.headers["x-forwarded-proto"] =
               (IF "x-forwarded-proto" \in DOMAIN req.headers
                     /\ req.headers["x-forwarded-proto"] # ""
                THEN req.headers["x-forwarded-proto"]
                ELSE "http")

C9_Witness ==
    /\ phase = "proxy"
    /\ req.method = "GET"
    /\ DOMAIN req.headers = {"host", "x-forwarded-host", "x-forwarded-proto", "accept"}
    /\ req.headers["x-forwarded-host"] = "edge.example"
    /\ req.headers["x-forwarded-proto"] = "https"
    /\ pReq.headers["host"] = "shop.example"
    /\ pReq.headers["x-forwarded-host"] = "shop.example"
    /\ pReq.headers["x-forwarded-proto"] = "https"
    /\ pReq.headers["accept"] = "*/*"

\* C10: when the client disconnected before the upstream had responded, the
\* outbound request is aborted: it never runs to the end of the upstream's
\* response.
C10_AbortOnDisconnect ==
    (phase = "proxy" /\ goneEarly /\ pResState = "end") => pReqDestroyed

\* the request of slot i is in progress and its own outbound request has
\* not failed
InProgress(i) ==
    /\ slots[i].phase = "proxy"
    /\ ~slots[i].resEnded
    /\ slots[i].errState = "none"

\* C11: of two concurrent requests to different upstreams, neither is
\* prevented from completing by the events of the other's upstream: while a
\* request is in progress and its own outbound request has not failed, the
\* process that serves it is alive.
C11_Independent == \A i \in Slots : InProgress(i) => ~dead

\* C12: for a forwarded request the response head is written to the caller
\* at most once (once written, status and headers stay as they are), and the
\* caller's response is eventually ended.
C12_HeadOnceAndEnded ==
    /\ [][(phase = "proxy" /\ resStatus # 0 /\ phase' = "proxy")
              => (resStatus' = resStatus /\ resHeaders' = resHeaders)]_vars
    /\ (phase = "proxy") ~> resEnded

DeployOrder ==
    <<"need", "pull", "build", "infra", "db", "migrate", "app", "api", "smoke">>

Started(step) == \E k \in 1..Len(deploy.ran) : deploy.ran[k] = step

\* C13: deploy.sh starts its commands in the fixed order (infra up, wait for
\* db, migrations, api and worker up, wait for api /health, smoke test), each
\* at most once; migrations start only when the db was reported ready; the
\* smoke test starts only when api and worker were started and /health
\* succeeded; when a wait loop has failed 60 times or a command fails, the
\* script has exited non-zero, the failed command is the last one started
\* and "[deploy] OK" was not printed.
C13_DeployOrder ==
    /\ Len(deploy.ran) <= Len(DeployOrder)
    /\ deploy.ran = SubSeq(DeployOrder, 1, Len(deploy.ran))
    /\ Started("migrate") => deploy.dbReady
    /\ Started("smoke") =>
           Started("app") /\ deploy.failedAt # "app" /\ deploy.apiReady
    /\ deploy.failedAt # "" =>
           /\ deploy.pc = "exit"
           /\ deploy.exitCode > 0
           /\ ~deploy.printedOk
           /\ deploy.ran[Len(deploy.ran)] = deploy.failedAt
    /\ deploy.failedAt \in {"db", "api"} =>
           deploy.attempt = 60 /\ ~deploy[deploy.failedAt \o "Ready"]
    /\ (deploy.pc \in {"db", "api"} /\ deploy.attempt > 1) =>
           ~deploy[deploy.pc \o "Ready"]
    /\ deploy.printedOk =>
           /\ deploy.failedAt = ""
           /\ deploy.ran = DeployOrder
           /\ deploy.dbReady /\ deploy.apiReady
    /\ (deploy.pc = "exit" /\ deploy.exitCode = 0) => deploy.printedOk

C13_Witness ==
    /\ deploy.pc = "exit"
    /\ deploy.failedAt = "api"
    /\ deploy.attempt = 60
    /\ deploy.dbReady
    /\ deploy.ran = SubSeq(DeployOrder, 1, 8)
    /\ deploy.exitCode = 1
    /\ ~deploy.printedOk

====
